---- MODULE Spec2Model ----
\* Model of scripts/train.py: main() opens a wandb session, builds the MNIST
\* loaders, and runs an optuna study of n_trials trials; every trial builds a
\* fresh model/optimizer/scheduler and runs the epoch loop train(); test();
\* scheduler.step().
\*
\* Numbers.  Floats are modelled by scaled integers:
\*   - learning rates in units of 1e-4 (so 1e-4 is 1 and 1e-1 is 1000), the
\*     optimizer's current rate as a fraction [num, den];
\*   - gammas in tenths (0.5 is 5, 0.9 is 9, the command line default 0.7 is 7);
\*   - log-probabilities and losses in twelfths, so that the means over a
\*     batch and over the dataset are exact for the sizes the bounds allow.
EXTENDS Integers, Sequences, FiniteSets, TLC

\* ---------------------------------------------------------------- bounds
MaxEpochs == 2          \* largest --epochs value enumerated
NTrain == 2             \* len(dataset1)
NTest == 3              \* len(dataset2)
MaxBatch == 2           \* largest --batch-size / --test-batch-size enumerated
MaxLogInterval == 2     \* largest --log-interval enumerated
NumWeights == 3         \* number of distinct abstract weight values
RngMod == 4             \* period of the abstract torch random generator
NumClasses == 2         \* number of labels

\* ------------------------------------------------------ program constants
NTrialsFour ==
    5 - 1

NTrials == 5            \* study.optimize(objective, n_trials=5)
LrLow == 1              \* suggest_float("lr", 1e-4, ...)
LrHigh == 1000          \* suggest_float("lr", ..., 1e-1, log=True)
GammaLow == 5           \* suggest_float("gamma", 0.5, ...)
GammaHigh == 9          \* suggest_float("gamma", ..., 0.9)
DefaultGamma == 7       \* --gamma default 0.7
DefaultSeed == 1        \* --seed default 1
SchedStepSize == 1      \* StepLR(optimizer, step_size=1, ...)

\* candidate values the samplers may propose; suggest_float keeps those that
\* lie inside [low, high]
LrGrid == {0, 1, 1000, 10000}
GammaGrid == {4, 5, 9, 10}

VARIABLES
    args,           \* parsed command line (argparse namespace)
    cuda_available, \* torch.cuda.is_available()
    pc,             \* position of main()
    error,          \* name of the exception that ended the process, or "none"
    session,        \* wandb run: "none", "open", "closed"
    finish_count,   \* number of wandb.finish() calls
    logged_when,    \* session states in which wandb.log was called
    use_cuda, device,
    rng,            \* state of torch's default generator, -1 before manual_seed
    train_loader, test_loader,
    loaders_built,  \* number of times the loaders were constructed
    objects,        \* number of Net() objects constructed so far
    study,          \* optuna study: finished trials, in order
    trial,          \* the running trial: number, suggested lr and gamma
    model, optimizer, scheduler,
    epoch,          \* loop variable of objective's epoch loop
    last_loss,      \* objective's local test_loss: <<>> while unbound, else <<v>>
    epoch_losses,   \* test losses returned in this trial, by epoch
    batches,        \* remaining batches of the loader being iterated
    batch_idx,      \* enumerate() index in train
    batches_done,   \* training batches executed in the current train call
    train_logged,   \* losses logged by the current train call
    batch_loss,     \* loss of the last training batch (loss.item())
    test_loss, correct,   \* accumulators of test()
    visited,        \* test samples seen by the running test call, in order
    decays,         \* decay factors applied by scheduler.step() in this trial
    best,           \* the reported best trial: <<>> or <<record>>
    trace           \* completed steps, in order

vars == <<args, cuda_available, pc, error, session, finish_count, logged_when,
          use_cuda, device, rng, train_loader, test_loader, loaders_built,
          objects, study, trial, model, optimizer, scheduler, epoch, last_loss,
          epoch_losses, batches, batch_idx, batches_done, train_logged,
          batch_loss, test_loss, correct, visited, decays, best, trace>>

\* what main() sets up before the study and no later step assigns
setupVars == <<args, cuda_available, use_cuda, device, train_loader, test_loader,
               loaders_built>>
trainVars == <<batches_done, train_logged, batch_loss, batch_idx>>
testVars == <<test_loss, correct, visited>>

\* ---------------------------------------------------------------- helpers
RECURSIVE SumSeq(_)
SumSeq(s) ==
    IF s = <<>> THEN 0 ELSE Head(s) + SumSeq(Tail(s))

RECURSIVE ChunkDropLast(_, _)
ChunkDropLast(order, bs) ==
    IF Len(order) < bs THEN <<>>
    ELSE <<SubSeq(order, 1, bs)>> \o ChunkDropLast(SubSeq(order, bs + 1, Len(order)), bs)

RECURSIVE Chunk(_, _)
\* BatchSampler with drop_last=False: consecutive groups of bs indices
Chunk(order, bs) ==
    IF order = <<>> THEN <<>>
    ELSE IF Len(order) <= bs THEN <<order>>
    ELSE <<SubSeq(order, 1, bs)>> \o Chunk(SubSeq(order, bs + 1, Len(order)), bs)

\* Python's a % b for b # 0 (the result has the sign of b)
PyMod(a, b) ==
    IF b > 0 THEN a % b ELSE -((-a) % (-b))

\* the orders in which a loader's sampler may yield the n dataset indices:
\* SequentialSampler gives 1..n, RandomSampler (shuffle=True) any permutation
SamplerOrders(n, shuffle) ==
    IF shuffle
    THEN {p \in [1..n -> 1..n] : \A i, j \in 1..n : p[i] = p[j] => i = j}
    ELSE {[i \in 1..n |-> i]}

\* the batches of one pass over a loader
LoaderBatches(loader) ==
    {Chunk(order, loader.batch_size) : order \in SamplerOrders(loader.n, loader.shuffle)}

\* label of dataset sample i
Target(i) ==
    (i % NumClasses) + 1

\* plr_exercise.models.Net: the forward pass ends in log_softmax, so the output
\* is a vector of log-probabilities (each <= 0), one per class
Forward(w, x) ==
    [c \in 1..NumClasses |-> -12 * ((w + x + c) % NumWeights)]

NllLossNoNegation(output, target) ==
    output[target]

\* F.nll_loss for one sample: minus the log-probability of the target class
NllLoss(output, target) ==
    -output[target]

\* output.argmax(dim=1): index of the first maximal entry
ArgMax(output) ==
    CHOOSE c \in 1..Len(output) :
        /\ \A d \in 1..Len(output) : output[d] <= output[c]
        /\ \A d \in 1..(c - 1) : output[d] < output[c]

\* loss.backward(); optimizer.step() with Adam, whose update has about the
\* size of the learning rate whatever the size of the gradient: the abstract
\* weights move to the next value when the current rate is at least 1e-3 and
\* stay (to the model's precision) when it is smaller
OptimizerUpdate(w, lr) ==
    IF lr.num >= 10 * lr.den
    THEN (w + 1) % NumWeights
    ELSE w

\* wandb.log: records the session state the call was made in
WandbLog ==
    logged_when' = logged_when \cup {session}

Emit(name, k) ==
    trace' = Append(trace, <<name, k>>)

\* --------------------------------------------------------- command lines
NoLoader == [n |-> 0, batch_size |-> 0, shuffle |-> FALSE, num_workers |-> 0,
             pin_memory |-> FALSE]
NoTrial == [number |-> -1, lr |-> 0, gamma |-> 0]
NoModel == [id |-> 0, w |-> 0, updates |-> 0, mode |-> "none"]
NoOptimizer == [params |-> 0, lr |-> [num |-> 0, den |-> 1], steps |-> 0]
NoScheduler == [optimizer |-> 0, gamma |-> 0, last_epoch |-> 0]

\* Command lines.  Every family fixes --gamma and --seed at their defaults;
\* a batch size of 0 is one DataLoader rejects, --epochs -1 and 0 give an empty
\* epoch loop, --log-interval 0 is a zero divisor.

\* the command lines of the whole-run checks: every epoch count, both flags
FlowArgs ==
    [ batch_size : {0, MaxBatch},
      test_batch_size : {0, MaxBatch},
      epochs : (-1)..MaxEpochs,
      gamma : {DefaultGamma},
      no_cuda : BOOLEAN,
      dry_run : BOOLEAN,
      seed : {DefaultSeed},
      log_interval : {0, 1} ]

\* the command lines that vary what train() reads
TrainArgs ==
    [ batch_size : 1..MaxBatch,
      test_batch_size : {MaxBatch},
      epochs : {1},
      gamma : {DefaultGamma},
      no_cuda : BOOLEAN,
      dry_run : BOOLEAN,
      seed : {DefaultSeed},
      log_interval : (-MaxLogInterval)..MaxLogInterval ]

\* the command lines that vary what test() reads
TestArgs ==
    [ batch_size : {MaxBatch},
      test_batch_size : 1..MaxBatch,
      epochs : {1},
      gamma : {DefaultGamma},
      no_cuda : BOOLEAN,
      dry_run : {TRUE},
      seed : {DefaultSeed},
      log_interval : {1} ]

InitWith(argset) ==
    /\ args \in argset
    /\ cuda_available \in BOOLEAN
    /\ pc = "start"
    /\ error = "none"
    /\ session = "none"
    /\ finish_count = 0
    /\ logged_when = {}
    /\ use_cuda = FALSE
    /\ device = "unset"
    /\ rng = -1
    /\ train_loader = NoLoader
    /\ test_loader = NoLoader
    /\ loaders_built = 0
    /\ objects = 0
    /\ study = <<>>
    /\ trial = NoTrial
    /\ model = NoModel
    /\ optimizer = NoOptimizer
    /\ scheduler = NoScheduler
    /\ epoch = 0
    /\ last_loss = <<>>
    /\ epoch_losses = <<>>
    /\ batches = <<>>
    /\ batch_idx = 0
    /\ batches_done = 0
    /\ train_logged = <<>>
    /\ batch_loss = 0
    /\ test_loss = 0
    /\ correct = 0
    /\ visited = <<>>
    /\ decays = <<>>
    /\ best = <<>>
    /\ trace = <<>>

Init ==
    InitWith(FlowArgs)

InitTrain ==
    InitWith(TrainArgs)

InitTest ==
    InitWith(TestArgs)

RaiseSwallowed(name) ==
    /\ pc' = "finish"
    /\ error' = name

\* an exception leaves main(): nothing catches it, the process ends
Raise(name) ==
    /\ pc' = "failed"
    /\ error' = name

\* ------------------------------------------------------------ main(), setup
\* parser.parse_args()
ParseArgs ==
    /\ pc = "start"
    /\ pc' = "login"
    /\ Emit("parse", 0)
    /\ UNCHANGED <<args, cuda_available, error, session, finish_count,
                   logged_when, use_cuda, device, rng, train_loader, test_loader,
                   loaders_built, objects, study, trial, model, optimizer,
                   scheduler, epoch, last_loss, epoch_losses, batches, batch_idx,
                   batches_done, train_logged, batch_loss, test_loss, correct,
                   visited, decays, best>>

\* wandb.login(); os.makedirs; wandb.init(...); run.log_code(...)
WandbInit ==
    /\ pc = "login"
    /\ session' = "open"
    /\ pc' = "device"
    /\ Emit("open", 0)
    /\ UNCHANGED <<args, cuda_available, error, finish_count,
                   logged_when, use_cuda, device, rng, train_loader, test_loader,
                   loaders_built, objects, study, trial, model, optimizer,
                   scheduler, epoch, last_loss, epoch_losses, batches, batch_idx,
                   batches_done, train_logged, batch_loss, test_loss, correct,
                   visited, decays, best>>

UseCudaIgnoringFlag ==
    cuda_available

\* use_cuda = not args.no_cuda and torch.cuda.is_available()
UseCuda ==
    (~args.no_cuda) /\ cuda_available

\* use_cuda; torch.manual_seed(args.seed); device
SelectDevice ==
    /\ pc = "device"
    /\ use_cuda' = UseCuda
    /\ rng' = args.seed % RngMod
    /\ device' = IF UseCuda THEN "cuda" ELSE "cpu"
    /\ pc' = "loaders"
    /\ UNCHANGED <<args, cuda_available, error, session, finish_count,
                   logged_when, train_loader, test_loader,
                   loaders_built, objects, study, trial, model, optimizer,
                   scheduler, epoch, last_loss, epoch_losses, batches, batch_idx,
                   batches_done, train_logged, batch_loss, test_loss, correct,
                   visited, decays, best, trace>>

\* train_kwargs / test_kwargs, updated with cuda_kwargs when use_cuda
LoaderKwargs(bs) ==
    IF use_cuda
    THEN [batch_size |-> bs, shuffle |-> TRUE, num_workers |-> 1, pin_memory |-> TRUE]
    ELSE [batch_size |-> bs, shuffle |-> FALSE, num_workers |-> 0, pin_memory |-> FALSE]

\* torch.utils.data.DataLoader(dataset, **kwargs)
DataLoader(n, kw) ==
    [n |-> n, batch_size |-> kw.batch_size, shuffle |-> kw.shuffle,
     num_workers |-> kw.num_workers, pin_memory |-> kw.pin_memory]

\* datasets.MNIST(...) twice, DataLoader(...) twice; DataLoader rejects a batch
\* size that is not positive with a ValueError
BuildLoaders ==
    /\ pc = "loaders"
    /\ IF args.batch_size <= 0 \/ args.test_batch_size <= 0
       THEN /\ Raise("ValueError")
            /\ UNCHANGED <<train_loader, test_loader, loaders_built, trace>>
       ELSE /\ train_loader' = DataLoader(NTrain, LoaderKwargs(args.batch_size))
            /\ test_loader' = DataLoader(NTest, LoaderKwargs(args.test_batch_size))
            /\ loaders_built' = loaders_built + 1
            /\ pc' = "trial"
            /\ Emit("loaders", 0)
            /\ UNCHANGED error
    /\ UNCHANGED <<args, cuda_available, session, finish_count,
                   logged_when, use_cuda, device, rng,
                   objects, study, trial, model, optimizer,
                   scheduler, epoch, last_loss, epoch_losses, batches, batch_idx,
                   batches_done, train_logged, batch_loss, test_loss, correct,
                   visited, decays, best>>

\* ------------------------------------------------------------- objective()
\* trial.suggest_float(name, low, high): a value inside [low, high]
SuggestFloat(grid, low, high) ==
    {v \in grid : low <= v /\ v <= high}

ModelKeptAcrossTrials ==
    IF objects = 0
    THEN [id |-> 1, w |-> rng % NumWeights, updates |-> 0, mode |-> "train"]
    ELSE model

\* Net().to(device): a new module with freshly drawn weights
FreshModel ==
    [id |-> objects + 1, w |-> rng % NumWeights, updates |-> 0, mode |-> "train"]

\* study.optimize asks a new trial and calls objective(trial): the two
\* suggest_float calls, then model, optimizer and scheduler are constructed
StartTrial ==
    /\ pc = "trial"
    /\ Len(study) < NTrials
    /\ \E lr \in SuggestFloat(LrGrid, LrLow, LrHigh) :
       \E g \in SuggestFloat(GammaGrid, GammaLow, GammaHigh) :
          /\ trial' = [number |-> Len(study), lr |-> lr, gamma |-> g]
          /\ model' = FreshModel
          /\ optimizer' = [params |-> FreshModel.id, lr |-> [num |-> lr, den |-> 1],
                           steps |-> 0]
          /\ scheduler' = [optimizer |-> FreshModel.id, gamma |-> g, last_epoch |-> 0]
    /\ objects' = objects + 1
    /\ rng' = (rng + 1) % RngMod
    /\ epoch' = 0
    /\ last_loss' = <<>>
    /\ epoch_losses' = <<>>
    /\ decays' = <<>>
    /\ pc' = "epoch"
    /\ Emit("trial", Len(study))
    /\ UNCHANGED <<setupVars, trainVars, testVars, batches, error, session,
                   finish_count, logged_when, study, best>>

\* train(): model.train() and the first step of the iteration over train_loader
TrainBegin ==
    /\ pc = "epoch"
    /\ epoch < args.epochs
    /\ model' = [model EXCEPT !.mode = "train"]
    /\ batches' \in LoaderBatches(train_loader)
    /\ rng' = IF train_loader.shuffle THEN (rng + 1) % RngMod ELSE rng
    /\ batch_idx' = 0
    /\ batches_done' = 0
    /\ train_logged' = <<>>
    /\ pc' = "train_batch"
    /\ UNCHANGED <<setupVars, testVars, batch_loss, error, session, finish_count,
                   logged_when, objects, study, trial, optimizer, scheduler, epoch,
                   last_loss, epoch_losses, decays, best, trace>>

\* F.nll_loss(output, target): mean over the batch of the per-sample losses
BatchMeanLoss(w, b) ==
    SumSeq([i \in 1..Len(b) |-> NllLoss(Forward(w, b[i]), Target(b[i]))]) \div Len(b)

\* the body of train()'s loop for one batch: forward, loss, backward, step,
\* then the logging test, which divides by args.log_interval
TrainBatch ==
    /\ pc = "train_batch"
    /\ batches # <<>>
    /\ LET b == Head(batches)
           loss == BatchMeanLoss(model.w, b)
           last == Tail(batches) = <<>>
       IN /\ model' = [model EXCEPT !.w = OptimizerUpdate(model.w, optimizer.lr),
                                     !.updates = @ + 1]
          /\ optimizer' = [optimizer EXCEPT !.steps = @ + 1]
          /\ batch_loss' = loss
          /\ batches_done' = batches_done + 1
          /\ IF args.log_interval = 0
             THEN /\ Raise("ZeroDivisionError")
                  /\ UNCHANGED <<batches, batch_idx, train_logged, logged_when, trace>>
             ELSE /\ UNCHANGED error
                  /\ IF PyMod(batch_idx, args.log_interval) = 0
                     THEN /\ train_logged' = Append(train_logged, loss)
                          /\ WandbLog
                     ELSE UNCHANGED <<train_logged, logged_when>>
                  /\ IF last \/ (PyMod(batch_idx, args.log_interval) = 0 /\ args.dry_run)
                     THEN /\ batches' = <<>>
                          /\ pc' = "test"
                          /\ Emit("train", epoch)
                          /\ UNCHANGED batch_idx
                     ELSE /\ batches' = Tail(batches)
                          /\ batch_idx' = batch_idx + 1
                          /\ UNCHANGED <<pc, trace>>
    /\ UNCHANGED <<setupVars, testVars, session, finish_count, rng, objects, study,
                   trial, scheduler, epoch, last_loss, epoch_losses, decays, best>>

\* test(): model.eval(), the accumulators, and the iteration over test_loader;
\* the locals of the train() call that has returned are gone
TestBegin ==
    /\ pc = "test"
    /\ model' = [model EXCEPT !.mode = "eval"]
    /\ test_loss' = 0
    /\ correct' = 0
    /\ visited' = <<>>
    /\ batches' \in LoaderBatches(test_loader)
    /\ rng' = IF test_loader.shuffle THEN (rng + 1) % RngMod ELSE rng
    /\ batch_idx' = 0
    /\ batches_done' = 0
    /\ train_logged' = <<>>
    /\ batch_loss' = 0
    /\ pc' = "test_batch"
    /\ UNCHANGED <<setupVars, error, session, finish_count, logged_when,
                   objects, study, trial, optimizer, scheduler, epoch, last_loss,
                   epoch_losses, decays, best, trace>>

\* F.nll_loss(output, target, reduction="sum").item()
BatchSumLoss(w, b) ==
    SumSeq([i \in 1..Len(b) |-> NllLoss(Forward(w, b[i]), Target(b[i]))])

\* pred.eq(target.view_as(pred)).sum().item()
BatchCorrect(w, b) ==
    Cardinality({i \in 1..Len(b) : ArgMax(Forward(w, b[i])) = Target(b[i])})

\* the body of test()'s loop for one batch, under torch.no_grad()
TestBatch ==
    /\ pc = "test_batch"
    /\ batches # <<>>
    /\ LET b == Head(batches)
       IN /\ test_loss' = test_loss + BatchSumLoss(model.w, b)
          /\ correct' = correct + BatchCorrect(model.w, b)
          /\ visited' = visited \o b
    /\ batches' = Tail(batches)
    /\ pc' = IF Tail(batches) = <<>> THEN "test_end" ELSE "test_batch"
    /\ UNCHANGED <<setupVars, trainVars, error, session, finish_count, logged_when,
                   rng, objects, study, trial, model, optimizer, scheduler, epoch,
                   last_loss, epoch_losses, decays, best, trace>>

\* test_loss /= len(test_loader.dataset)
AverageLoss ==
    test_loss \div test_loader.n

\* the end of test(): normalise, print, wandb.log, return test_loss to
\* objective, which binds it to its local test_loss; the record of the samples
\* seen ends with the call
TestEnd ==
    /\ pc = "test_end"
    /\ test_loss' = AverageLoss
    /\ WandbLog
    /\ last_loss' = <<AverageLoss>>
    /\ epoch_losses' = Append(epoch_losses, AverageLoss)
    /\ visited' = <<>>
    /\ pc' = "sched"
    /\ Emit("test", epoch)
    /\ UNCHANGED <<setupVars, trainVars, correct, batches, error, session,
                   finish_count, rng, objects, study, trial, model, optimizer,
                   scheduler, epoch, decays, best>>

DecayFromCommandLine ==
    args.gamma

\* the factor StepLR multiplies the learning rate by
DecayFactor ==
    scheduler.gamma

\* scheduler.step(), then the loop moves to the next epoch
SchedulerStep ==
    /\ pc = "sched"
    /\ scheduler' = [scheduler EXCEPT !.last_epoch = @ + 1]
    /\ IF (scheduler.last_epoch + 1) % SchedStepSize = 0
       THEN /\ optimizer' = [optimizer EXCEPT !.lr = [num |-> @.num * DecayFactor,
                                                       den |-> @.den * 10]]
            /\ decays' = Append(decays, DecayFactor)
       ELSE UNCHANGED <<optimizer, decays>>
    /\ epoch' = epoch + 1
    /\ pc' = "epoch"
    /\ Emit("sched", epoch)
    /\ UNCHANGED <<setupVars, trainVars, testVars, batches, error, session,
                   finish_count, logged_when, rng, objects, study, trial, model,
                   last_loss, epoch_losses, best>>

\* return test_loss
ReturnValue ==
    last_loss[1]

\* the epoch loop is exhausted: return test_loss, which is unbound when the
\* loop body never ran; the study records the value of the finished trial
ObjectiveReturn ==
    /\ pc = "epoch"
    /\ epoch >= args.epochs
    /\ IF last_loss = <<>>
       THEN /\ Raise("UnboundLocalError")
            /\ UNCHANGED <<study, trace>>
       ELSE /\ study' = Append(study, [number |-> trial.number, lr |-> trial.lr,
                                        gamma |-> trial.gamma, value |-> ReturnValue])
            /\ pc' = IF Len(study) + 1 < NTrials THEN "trial" ELSE "report"
            /\ Emit("value", trial.number)
            /\ UNCHANGED error
    /\ UNCHANGED <<setupVars, trainVars, testVars, batches, session, finish_count,
                   logged_when, rng, objects, trial, model, optimizer, scheduler,
                   epoch, last_loss, epoch_losses, decays, best>>

\* ------------------------------------------------------- main(), the end
BestTrialMaximize ==
    CHOOSE t \in {study[i] : i \in 1..Len(study)} :
        \A i \in 1..Len(study) : t.value >= study[i].value

\* study.best_trial of a study created with direction="minimize"
BestTrial ==
    CHOOSE t \in {study[i] : i \in 1..Len(study)} :
        \A i \in 1..Len(study) : t.value <= study[i].value

\* print the best trial's value and params
ReportBest ==
    /\ pc = "report"
    /\ best' = <<BestTrial>>
    /\ pc' = "finish"
    /\ Emit("report", 0)
    /\ UNCHANGED <<setupVars, trainVars, testVars, batches, error, session,
                   finish_count, logged_when, rng, objects, study, trial, model,
                   optimizer, scheduler, epoch, last_loss, epoch_losses, decays>>

\* wandb.finish()
Finish ==
    /\ pc = "finish"
    /\ session' = "closed"
    /\ finish_count' = finish_count + 1
    /\ pc' = "done"
    /\ Emit("close", 0)
    /\ UNCHANGED <<setupVars, trainVars, testVars, batches, error,
                   logged_when, rng, objects, study, trial, model, optimizer,
                   scheduler, epoch, last_loss, epoch_losses, decays, best>>

\* the steps in which a library call can raise: wandb.login (authentication),
\* datasets.MNIST (download), a training batch, an evaluation batch
FailurePoints ==
    {"login", "loaders", "train_batch", "test_batch"}

\* a library call raises; main() has no try/except and study.optimize is
\* called without catch, so the exception ends the process
Fail ==
    /\ pc \in FailurePoints
    /\ Raise("Exception")
    /\ UNCHANGED <<setupVars, trainVars, testVars, batches, session, finish_count,
                   logged_when, rng, objects, study, trial, model, optimizer,
                   scheduler, epoch, last_loss, epoch_losses, decays, best, trace>>

Next ==
    \/ ParseArgs
    \/ WandbInit
    \/ SelectDevice
    \/ BuildLoaders
    \/ StartTrial
    \/ TrainBegin
    \/ TrainBatch
    \/ TestBegin
    \/ TestBatch
    \/ TestEnd
    \/ SchedulerStep
    \/ ObjectiveReturn
    \/ ReportBest
    \/ Finish
    \/ Fail

Spec ==
    Init /\ [][Next]_vars

SpecTrain ==
    InitTrain /\ [][Next]_vars

SpecTest ==
    InitTest /\ [][Next]_vars

\* ================================================================ claims
IsPrefix(s, t) ==
    Len(s) <= Len(t) /\ s = SubSeq(t, 1, Len(s))

RECURSIVE EpochsTrace(_, _)
\* the steps of epochs e, e+1, ..., n-1
EpochsTrace(e, n) ==
    IF e >= n THEN <<>>
    ELSE << <<"train", e>>, <<"test", e>>, <<"sched", e>> >> \o EpochsTrace(e + 1, n)

RECURSIVE TrialsTrace(_, _, _)
\* the steps of trials k, k+1, ..., m-1, each of n epochs
TrialsTrace(k, m, n) ==
    IF k >= m THEN <<>>
    ELSE << <<"trial", k>> >> \o EpochsTrace(0, n) \o << <<"value", k>> >>
         \o TrialsTrace(k + 1, m, n)

\* the one sequence of steps of a run with n epochs that does not fail
ExpectedTrace(n) ==
    << <<"parse", 0>>, <<"open", 0>>, <<"loaders", 0>> >>
    \o TrialsTrace(0, 5, n)
    \o << <<"report", 0>>, <<"close", 0>> >>

\* C1: a run that does not fail performs parse, open session, build loaders
\* (once), 5 trials one after another, report, close (once, last), in this order
\* and no other; wandb.log is only ever called while the session is open.
C1_LinearFlow ==
    /\ IsPrefix(trace, ExpectedTrace(args.epochs))
    /\ loaders_built <= 1
    /\ finish_count <= 1
    /\ logged_when \subseteq {"open"}
    /\ session = "closed" => pc = "done"
    /\ pc = "done" =>
          /\ error = "none"
          /\ trace = ExpectedTrace(args.epochs)
          /\ loaders_built = 1
          /\ finish_count = 1
          /\ Len(study) = 5
          /\ \A i \in 1..5 : study[i].number = i - 1
          /\ best # <<>>

C1_Witness ==
    /\ pc = "done"
    /\ error = "none"
    /\ logged_when = {"open"}
    /\ Len(study) = 5
    /\ args.epochs = 2

InRange(t) ==
    /\ 1 <= t.lr /\ t.lr <= 1000
    /\ 5 <= t.gamma /\ t.gamma <= 9

\* C2: every trial that was run has lr in [1e-4, 1e-1] and gamma in [0.5, 0.9];
\* the reported best trial is one of the trials run, has parameters in these
\* ranges, and no trial has a smaller objective value.
C2_BestTrialInRange ==
    /\ trial # NoTrial => InRange(trial)
    /\ \A i \in 1..Len(study) : InRange(study[i])
    /\ best # <<>> =>
          /\ InRange(best[1])
          /\ \E i \in 1..Len(study) : study[i] = best[1]
          /\ \A i \in 1..Len(study) : best[1].value <= study[i].value

C2_Witness ==
    /\ best # <<>>
    /\ \E i \in 1..Len(study) : study[i].value > best[1].value
    /\ \E i, j \in 1..Len(study) : study[i].lr = 1 /\ study[j].lr = 1000

NoDuplicates(s) ==
    \A i, j \in 1..Len(s) : s[i] = s[j] => i = j

\* C3: during and after every call of test() the count of correct predictions
\* is between 0 and the size of the test dataset: it is at most the number of
\* samples seen so far, no sample is seen twice, and when the loop over the
\* batches has ended every sample has been seen exactly once, for every batch
\* size and sampling order.
C3_CorrectBounded ==
    /\ 0 <= correct
    /\ correct <= NTest
    /\ NoDuplicates(visited)
    /\ pc \in {"test_batch", "test_end"} => correct <= Len(visited)
    /\ pc = "test_end" =>
          /\ Len(visited) = NTest
          /\ {visited[i] : i \in 1..Len(visited)} = 1..NTest

C3_Witness ==
    /\ pc = "test_end"
    /\ NTest % args.test_batch_size # 0
    /\ correct > 0
    /\ correct < NTest

\* C4: the average loss test() returns is never negative: it is the sum of the
\* per-sample negative log-likelihoods of all test samples divided by the size
\* of the test dataset, and every per-sample loss is non-negative.
C4_LossNonNegative ==
    /\ test_loss >= 0
    /\ \A i \in 1..Len(epoch_losses) : epoch_losses[i] >= 0
    /\ \A i \in 1..Len(study) : study[i].value >= 0
    /\ \A w \in 0..(NumWeights - 1) : \A x \in 1..NTest :
          NllLoss(Forward(w, x), Target(x)) >= 0
    /\ pc = "sched" =>
          /\ last_loss = <<test_loss>>
          /\ test_loss * NTest =
                SumSeq([x \in 1..NTest |-> NllLoss(Forward(model.w, x), Target(x))])

C4_Witness ==
    /\ pc = "sched"
    /\ test_loss > 0
    /\ NTest % args.test_batch_size # 0

\* number of batches of a loader (len(loader))
NumBatches(loader) ==
    (loader.n + loader.batch_size - 1) \div loader.batch_size

\* C5: train() never raises, whatever integer --log-interval is; in dry-run
\* mode a call executes exactly one batch and logs its loss once; otherwise it
\* executes every batch of the train loader.
C5_DryRunOneBatch ==
    /\ error # "ZeroDivisionError"
    /\ pc = "test" =>
          IF args.dry_run
          THEN batches_done = 1 /\ train_logged = <<batch_loss>>
          ELSE batches_done = NumBatches(train_loader)

\* C6: with --no-cuda the device is the CPU whether or not CUDA is available
\* and the loaders carry none of the accelerator-only options; CUDA is selected
\* exactly when the flag is unset and CUDA is available; the sequence of steps
\* depends on the epoch count only, so it is the same on either device.
C6_NoCudaForcesCpu ==
    /\ device # "unset" =>
          /\ args.no_cuda => device = "cpu"
          /\ device = "cuda" <=> (~args.no_cuda /\ cuda_available)
          /\ use_cuda <=> device = "cuda"
    /\ (loaders_built = 1 /\ device = "cpu") =>
          \A l \in {train_loader, test_loader} :
              ~l.shuffle /\ l.num_workers = 0 /\ ~l.pin_memory
    /\ IsPrefix(trace, ExpectedTrace(args.epochs))
    /\ (pc = "done" /\ args.no_cuda) => trace = ExpectedTrace(args.epochs)

C6_Witness ==
    /\ args.no_cuda
    /\ cuda_available
    /\ device = "cpu"
    /\ pc = "done"

\* the state right after objective has returned a value to the study
TrialReturned ==
    /\ pc \in {"trial", "report"}
    /\ study # <<>>

\* C7: for every --epochs value objective returns, without raising, the loss
\* of the test() call of the trial's last epoch, and the study records it.
C7_ReturnsLastEpochLoss ==
    /\ error # "UnboundLocalError"
    /\ TrialReturned =>
          /\ epoch_losses # <<>>
          /\ study[Len(study)].value = epoch_losses[Len(epoch_losses)]

\* C8: an exception ends the process at the step that raised it: no step
\* follows, so no trial starts, nothing is reported and the session is not
\* closed; the run only reaches its end without an exception.
C8_FailureTerminates ==
    /\ [](pc = "failed" <=> error # "none")
    /\ [](pc = "failed" => (best = <<>> /\ finish_count = 0 /\ session # "closed"))
    /\ [][error = "none" /\ pc # "failed"]_vars

C8_Witness ==
    /\ pc = "failed"
    /\ error = "Exception"
    /\ trial.number = 1
    /\ epoch = 1
    /\ batches # <<>>

\* the steps of the running trial: the part of the trace from its start
TrialSegment ==
    LET starts == {i \in 1..Len(trace) : trace[i][1] = "trial"}
        from == CHOOSE i \in starts : \A j \in starts : j <= i
    IN  SubSeq(trace, from, Len(trace))

CountSteps(seg, name) ==
    Cardinality({i \in 1..Len(seg) : seg[i][1] = name})

\* the steps of the current epoch that are complete at each position
EpochPartial ==
    CASE pc \in {"test", "test_batch", "test_end"} -> << <<"train", epoch>> >>
      [] pc = "sched" -> << <<"train", epoch>>, <<"test", epoch>> >>
      [] OTHER -> <<>>

====
